---- MODULE Spec2Model ----
(***************************************************************************)
(* Model of the identity-provider policy of oauthenticator:                *)
(*   src/oauthenticator/cilogon.py  CILogonOAuthenticator                  *)
(*   src/oauthenticator/generic.py  GenericOAuthenticator                  *)
(*                                                                         *)
(* A Python str is a sequence of code points, each written as a one-       *)
(* element TLA+ string ("i", "@") or, outside ASCII, by its code point     *)
(* name ("U+0130").  A dict is a function; dict.get of an absent key is    *)
(* None.  An operation's outcome is a record: a returned value or a raised *)
(* exception.                                                              *)
(***************************************************************************)
EXTENDS Integers, Sequences, FiniteSets, TLC

\* ------------------------------------------------------------------ bounds

\* Longest username claim value a claims document carries.
MaxLen == 3

\* Most entries of a proposed allowed_idps dictionary.
MaxIdps == 2

\* ------------------------------------------------------- Python primitives

\* Python's None, a value that is no str.
None == <<"None">>

\* `not v` is False exactly for a non-empty str (None and "" are falsy).
Truthy(v) == v # None /\ v # <<>>

AsciiLower ==
    [A |-> "a", B |-> "b", C |-> "c", D |-> "d", E |-> "e", F |-> "f",
     G |-> "g", H |-> "h", I |-> "i", J |-> "j", K |-> "k", L |-> "l",
     M |-> "m", N |-> "n", O |-> "o", P |-> "p", Q |-> "q", R |-> "r",
     S |-> "s", T |-> "t", U |-> "u", V |-> "v", W |-> "w", X |-> "x",
     Y |-> "y", Z |-> "z"]

\* str.lower() of one code point.  U+0130 (capital I with dot above) lowers
\* to the two code points "i", U+0307: lower() need not keep the length.
LowerChar(c) ==
    IF c \in DOMAIN AsciiLower THEN <<AsciiLower[c]>>
    ELSE IF c = "U+0130" THEN <<"i", "U+0307">>
    ELSE <<c>>

RECURSIVE Lower(_)
Lower(s) == IF s = <<>> THEN <<>> ELSE LowerChar(Head(s)) \o Lower(Tail(s))

\* s.endswith(suffix)
EndsWith(s, suffix) ==
    /\ Len(suffix) <= Len(s)
    /\ SubSeq(s, Len(s) - Len(suffix) + 1, Len(s)) = suffix

\* s[:-n] for n >= 1: the slice is clamped, never an error.
DropLast(s, n) == IF Len(s) > n THEN SubSeq(s, 1, Len(s) - n) ELSE <<>>

\* s.find(c) + 1: the 1-based place of the first c in s, 0 when there is none.
Find(s, c) ==
    IF \E i \in 1..Len(s) : s[i] = c
    THEN CHOOSE i \in 1..Len(s) : s[i] = c /\ \A j \in 1..(i - 1) : s[j] # c
    ELSE 0

\* x in l, for a list l
InList(x, l) == \E i \in 1..Len(l) : l[i] = x

\* d.get(k)
Get(d, k) == IF k \in DOMAIN d THEN d[k] ELSE None

\* An outcome: the value returned, or the exception raised.  status is the
\* HTTP status of a tornado web.HTTPError and 0 for any other exception; at is
\* the place (1-based) of the dictionary entry a configuration error is about.
Return(v) == [kind |-> "return", exc |-> "", status |-> 0, at |-> 0, value |-> v]
Raise(e, st) == [kind |-> "raise", exc |-> e, status |-> st, at |-> 0, value |-> None]
RaiseAt(e, i) == [kind |-> "raise", exc |-> e, status |-> 0, at |-> i, value |-> None]

\* ---------------------------------------------------- provider entity IDs

SchemeChars ==
    DOMAIN AsciiLower \cup {AsciiLower[c] : c \in DOMAIN AsciiLower}
    \cup {"0", "1", "2", "3", "4", "5", "6", "7", "8", "9", "+", "-", "."}

Letters == DOMAIN AsciiLower \cup {AsciiLower[c] : c \in DOMAIN AsciiLower}

\* urlparse(entity_id).scheme: the text before the first ":", lowercased, when
\* it is non-empty, starts with a letter and holds scheme characters only;
\* the empty string otherwise.
UrlScheme(url) ==
    LET i == Find(url, ":") IN
    IF /\ i > 1
       /\ url[1] \in Letters
       /\ \A j \in 1..(i - 1) : url[j] \in SchemeChars
    THEN Lower(SubSeq(url, 1, i - 1))
    ELSE <<>>

accepted_entity_id_scheme ==
    << <<"u", "r", "n">>, <<"h", "t", "t", "p", "s">>, <<"h", "t", "t", "p">> >>

\* Entity IDs a configuration or a claims document may name.
IdUrn == <<"u", "r", "n", ":", "x">>
IdHttps == <<"H", "T", "T", "P", "S", ":", "y">>
IdHttp == <<"h", "t", "t", "p", ":", "z">>
IdDomainName == <<"g", ".", "c">>
IdFtp == <<"f", "t", "p", ":", "w">>

\* ------------------------------------------- identity-provider configuration

\* Domains a configuration names: an ASCII one, and two that lower() to the
\* same text but differ in length.
DomI == <<"i">>
DomUpperI == <<"I">>
DomDottedI == <<"U+0130">>

\* idp_config dictionaries as an administrator may write them.
CfgStrip(d) ==
    [username_derivation |->
        [username_claim |-> "eppn", action |-> "strip_idp_domain", domain |-> d]]
CfgPrefix ==
    [username_derivation |->
        [username_claim |-> "email", action |-> "prefix", prefix |-> <<"g", "h">>]]
CfgDomains(l) ==
    [username_derivation |-> [username_claim |-> "eppn"], allowed_domains |-> l]
CfgPlain == [username_derivation |-> [username_claim |-> "eppn"]]
CfgStripNoDomain ==
    [username_derivation |-> [username_claim |-> "eppn", action |-> "strip_idp_domain"]]
CfgNoDerivation == [allowed_domains |-> <<DomI>>]

\* (entity_id, idp_config) items of a proposed allowed_idps dictionary.
Entries ==
    {[id |-> IdUrn, cfg |-> CfgStrip(DomI)],
     [id |-> IdUrn, cfg |-> CfgStrip(DomDottedI)],
     [id |-> IdUrn, cfg |-> CfgStripNoDomain],
     [id |-> IdHttps, cfg |-> CfgPrefix],
     [id |-> IdHttps, cfg |-> CfgNoDerivation],
     [id |-> IdHttp, cfg |-> CfgDomains(<<DomI>>)],
     [id |-> IdHttp, cfg |-> CfgDomains(<<DomUpperI>>)],
     [id |-> IdHttp, cfg |-> CfgDomains(<<>>)],
     [id |-> IdDomainName, cfg |-> CfgPlain],
     [id |-> IdFtp, cfg |-> CfgPlain]}

\* A proposed dictionary: its items in iteration order, no key twice.
Proposals ==
    {p \in UNION {[1..k -> Entries] : k \in 0..MaxIdps} :
        \A i, j \in DOMAIN p : p[i].id = p[j].id => i = j}

\* dict(items)
ToDict(items) ==
    [e \in {items[i].id : i \in DOMAIN items} |->
        items[CHOOSE i \in DOMAIN items : items[i].id = e].cfg]

\* The empty dict.
EmptyDict == <<>>

\* jsonschema.validate(idp_config, schema) passes: username_derivation and its
\* username_claim are required, action is strip_idp_domain or prefix, and each
\* action requires its own field.
SchemaValid(cfg) ==
    /\ "username_derivation" \in DOMAIN cfg
    /\ LET ud == cfg.username_derivation IN
       /\ "username_claim" \in DOMAIN ud
       /\ "action" \in DOMAIN ud =>
            /\ ud.action \in {"strip_idp_domain", "prefix"}
            /\ ud.action = "strip_idp_domain" => "domain" \in DOMAIN ud
            /\ ud.action = "prefix" => "prefix" \in DOMAIN ud

\* The entity ID's scheme is one of the accepted ones.
SchemeAccepted(entity_id) == InList(UrlScheme(entity_id), accepted_entity_id_scheme)

\* The loop of _validate_allowed_idps from item i on: the first item that fails
\* the schema or the scheme check raises; past the last item the dictionary is
\* returned.
RECURSIVE ValidateFrom(_, _)
ValidateFrom(items, i) ==
    IF i > Len(items) THEN Return(ToDict(items))
    ELSE IF ~SchemaValid(items[i].cfg) THEN RaiseAt("ValidationError", i)
    ELSE IF ~SchemeAccepted(items[i].id) THEN RaiseAt("ValueError", i)
    ELSE ValidateFrom(items, i + 1)

\* A validator that drops the items failing a check and keeps the others,
\* where the code raises.
ValidateAllowedIdps_DropsBadItems(items) ==
    IF items = <<>> THEN RaiseAt("ValueError", 0)
    ELSE Return(ToDict(SelectSeq(items,
            LAMBDA e : SchemaValid(e.cfg) /\ SchemeAccepted(e.id))))

\* CILogonOAuthenticator._validate_allowed_idps
ValidateAllowedIdps(items) ==
    IF items = <<>> THEN RaiseAt("ValueError", 0) ELSE ValidateFrom(items, 1)

\* -------------------------------------------------------------------- state

VARIABLES
    cls,                \* which authenticator class the process runs
    phase,              \* "new", "serving", or "failed" (it refused to start)
    allowed_idps,       \* CILogonOAuthenticator.allowed_idps
    allowed_groups,     \* GenericOAuthenticator.allowed_groups
    admin_groups,       \* GenericOAuthenticator.admin_groups
    claim_groups_key,   \* GenericOAuthenticator.claim_groups_key
    username_claim,     \* GenericOAuthenticator.username_claim
    op,                 \* the operation that ran last
    arg,                \* its arguments
    out                 \* its outcome

vars ==
    <<cls, phase, allowed_idps, allowed_groups, admin_groups, claim_groups_key,
      username_claim, op, arg, out>>

generic_config == <<allowed_groups, admin_groups, claim_groups_key, username_claim>>

\* A path string as claim_groups_key or username_claim, or a callable.
PathKey(s) == [callable |-> FALSE, path |-> s]
CallableKey == [callable |-> TRUE, path |-> <<>>]

\* Claim names as configured (the text of a str trait): the keys "g" and "u" of
\* a userinfo response, and "g" below "p".
PathGroups == <<"g">>
PathNested == <<"p", ".", "g">>
PathUser == <<"u">>

\* The dict key a text spells.
RECURSIVE KeyOf(_)
KeyOf(s) == IF s = <<>> THEN "" ELSE Head(s) \o KeyOf(Tail(s))

\* The traits' default values, before any configuration is applied.
Init ==
    /\ cls = "none"
    /\ phase = "new"
    /\ allowed_idps = EmptyDict
    /\ allowed_groups = {}
    /\ admin_groups = {}
    /\ claim_groups_key = PathKey(PathGroups)
    /\ username_claim = PathKey(PathUser)
    /\ op = "init"
    /\ arg = None
    /\ out = Return(None)

\* A CILogonOAuthenticator whose configuration sets allowed_idps: the
\* validator runs on the proposed value; the value it returns is installed,
\* and an exception leaves the trait as it was and ends the start-up.
ConfigureAllowedIdps ==
    /\ phase = "new"
    /\ \E proposal \in Proposals :
        LET r == ValidateAllowedIdps(proposal) IN
        /\ cls' = "CILogon"
        /\ op' = "allowed_idps"
        /\ arg' = [proposal |-> proposal]
        /\ out' = r
        /\ allowed_idps' = IF r.kind = "return" THEN r.value ELSE allowed_idps
        /\ phase' = IF r.kind = "return" THEN "serving" ELSE "failed"
    /\ UNCHANGED generic_config

\* A CILogonOAuthenticator whose configuration does not mention allowed_idps:
\* the trait keeps default_value, which no validator sees.
DefaultAllowedIdps ==
    /\ phase = "new"
    /\ cls' = "CILogon"
    /\ op' = "allowed_idps_default"
    /\ arg' = None
    /\ out' = Return(allowed_idps)
    /\ phase' = "serving"
    /\ UNCHANGED <<allowed_idps, generic_config>>

\* The operations of a login attempt.  Each runs to completion on the values
\* of its own request; nothing of one request is kept for the next.
RequestOps ==
    {"user_info_to_username", "check_allowed", "generic.user_info_to_username",
     "generic.update_auth_model", "generic.check_allowed"}

\* The handler's outcome goes back to its caller and the request's values are
\* dropped; the configuration stays.
FinishRequest ==
    /\ op \in RequestOps
    /\ op' = "idle"
    /\ arg' = None
    /\ out' = Return(None)
    /\ UNCHANGED <<cls, phase, allowed_idps, generic_config>>

\* ------------------------------------------------- CILogon claims documents

\* Code points of a username claim value.
Alphabet == {"@", "i", "I", "U+0130", "U+0307"}

Strs == UNION {[1..k -> Alphabet] : k \in 0..MaxLen}

\* d1 | d2 for dicts with no key in common
Merge(a, b) == [k \in DOMAIN a \cup DOMAIN b |-> IF k \in DOMAIN a THEN a[k] ELSE b[k]]

\* The userinfo responses: with or without an "idp" claim (empty, configured
\* or not), and with at most one of the username claims.
UserInfos ==
    {Merge(a, b) :
        a \in {EmptyDict} \cup {[idp |-> i] : i \in {<<>>, IdUrn, IdHttps, IdHttp, IdFtp}},
        b \in {EmptyDict} \cup {[eppn |-> v] : v \in Strs}
               \cup {[email |-> v] : v \in {<<>>, <<"i">>, <<"i", "@", "I">>}}}

\* ------------------------------------------------ CILogon username derivation

\* CILogonOAuthenticator._user_info_to_unprocessed_username
UserInfoToUnprocessedUsername(idps, user_info) ==
    IF "idp" \notin DOMAIN user_info THEN Raise("KeyError", 0)
    ELSE IF user_info["idp"] \notin DOMAIN idps THEN Raise("KeyError", 0)
    ELSE LET username_derivation == idps[user_info["idp"]].username_derivation
             claim == username_derivation.username_claim
             username == Get(user_info, claim)
         IN  IF ~Truthy(username) THEN Raise("HTTPError", 500) ELSE Return(username)

\* CILogonOAuthenticator._get_processed_username
GetProcessedUsername(idps, username, user_info) ==
    LET username_derivation == idps[user_info["idp"]].username_derivation
        \* username_derivation.get("action") == name
        action_is(name) ==
            "action" \in DOMAIN username_derivation /\ username_derivation.action = name
    IN  IF action_is("strip_idp_domain")
        THEN LET domain_suffix == <<"@">> \o username_derivation.domain IN
             IF EndsWith(Lower(username), Lower(domain_suffix))
             THEN DropLast(username, Len(domain_suffix))
             ELSE username
        ELSE IF action_is("prefix")
        THEN username_derivation.prefix \o <<":">> \o username
        ELSE username

\* A derivation that, for a provider the registry lacks, falls back to the
\* default username claim where the code raises.
UserInfoToUsername_FallsBack(idps, user_info) ==
    LET user_idp == Get(user_info, "idp") IN
    IF ~Truthy(user_idp) THEN Raise("HTTPError", 500)
    ELSE IF user_idp \notin DOMAIN idps \/ idps[user_idp] = EmptyDict
    THEN Return(Get(user_info, "eppn"))
    ELSE LET unprocessed == UserInfoToUnprocessedUsername(idps, user_info) IN
         IF unprocessed.kind = "raise" THEN unprocessed
         ELSE Return(GetProcessedUsername(idps, unprocessed.value, user_info))

\* CILogonOAuthenticator.user_info_to_username
UserInfoToUsername(idps, user_info) ==
    LET user_idp == Get(user_info, "idp") IN
    IF ~Truthy(user_idp) THEN Raise("HTTPError", 500)
    ELSE IF user_idp \notin DOMAIN idps \/ idps[user_idp] = EmptyDict
    THEN Raise("HTTPError", 500)
    ELSE LET unprocessed == UserInfoToUnprocessedUsername(idps, user_info) IN
         IF unprocessed.kind = "raise" THEN unprocessed
         ELSE Return(GetProcessedUsername(idps, unprocessed.value, user_info))

\* A login reaches user_info_to_username with the userinfo response.
DoUserInfoToUsername ==
    /\ phase = "serving"
    /\ cls = "CILogon"
    /\ op \notin RequestOps
    /\ \E user_info \in UserInfos :
        /\ op' = "user_info_to_username"
        /\ arg' = [user_info |-> user_info]
        /\ out' = UserInfoToUsername(allowed_idps, user_info)
    /\ UNCHANGED <<cls, phase, allowed_idps, generic_config>>

\* ----------------------------------------------------- CILogon check_allowed

\* A check_allowed that runs the domain check first and consults the base
\* allow-list only when the provider declares no allowed_domains.
CheckAllowed_DomainCheckFirst(idps, base, user_info) ==
    IF "idp" \notin DOMAIN user_info THEN Raise("KeyError", 0)
    ELSE IF user_info["idp"] \notin DOMAIN idps THEN Raise("KeyError", 0)
    ELSE LET idp_allowed_domains == Get(idps[user_info["idp"]], "allowed_domains") IN
         IF idp_allowed_domains # None /\ idp_allowed_domains # <<>>
         THEN LET unprocessed == UserInfoToUnprocessedUsername(idps, user_info) IN
              IF unprocessed.kind = "raise" THEN unprocessed
              ELSE LET at == Find(unprocessed.value, "@") IN
                   IF at = 0 THEN Raise("IndexError", 0)
                   ELSE LET user_domain ==
                                Lower(SubSeq(unprocessed.value, at + 1,
                                             Len(unprocessed.value)))
                        IN  IF InList(user_domain, idp_allowed_domains)
                            THEN Return(TRUE)
                            ELSE Raise("HTTPError", 403)
         ELSE Return(base)

\* CILogonOAuthenticator.check_allowed; base is what the inherited
\* check_allowed (the static allow-list) answered.
CheckAllowed(idps, base, user_info) ==
    IF base THEN Return(TRUE)
    ELSE IF "idp" \notin DOMAIN user_info THEN Raise("KeyError", 0)
    ELSE IF user_info["idp"] \notin DOMAIN idps THEN Raise("KeyError", 0)
    ELSE LET idp_allowed_domains == Get(idps[user_info["idp"]], "allowed_domains") IN
         IF idp_allowed_domains # None /\ idp_allowed_domains # <<>>
         THEN LET unprocessed == UserInfoToUnprocessedUsername(idps, user_info) IN
              IF unprocessed.kind = "raise" THEN unprocessed
              ELSE LET at == Find(unprocessed.value, "@") IN
                   \* split("@", 1)[1] of a text without "@"
                   IF at = 0 THEN Raise("IndexError", 0)
                   ELSE LET user_domain ==
                                Lower(SubSeq(unprocessed.value, at + 1,
                                             Len(unprocessed.value)))
                        IN  IF InList(user_domain, idp_allowed_domains)
                            THEN Return(TRUE)
                            ELSE Raise("HTTPError", 403)
         ELSE Return(FALSE)

\* A login whose username was derived reaches check_allowed: the auth model
\* carries the userinfo response user_info_to_username accepted.
DoCheckAllowed ==
    /\ phase = "serving"
    /\ cls = "CILogon"
    /\ op \notin RequestOps
    /\ \E base \in BOOLEAN, user_info \in UserInfos :
        /\ UserInfoToUsername(allowed_idps, user_info).kind = "return"
        /\ op' = "check_allowed"
        /\ arg' = [base |-> base, user_info |-> user_info,
                   username |-> UserInfoToUsername(allowed_idps, user_info).value]
        /\ out' = CheckAllowed(allowed_idps, base, user_info)
    /\ UNCHANGED <<cls, phase, allowed_idps, generic_config>>

\* ------------------------------------------------- generic claims documents

\* Python values of a userinfo response, each a pair of its type and its
\* content: None, a str, a list of str, a dict.
JNone == <<"none", None>>
JStr(s) == <<"str", s>>
JList(l) == <<"list", l>>
JDict(d) == <<"dict", d>>
TypeOf(j) == j[1]
ValueOf(j) == j[2]

\* `not j` is False: j is neither None nor empty.
JTruthy(j) == TypeOf(j) # "none" /\ ValueOf(j) # <<>>

\* Group identifiers; a Set(Unicode()) trait and a groups claim may both hold
\* the empty string.
GrpEmpty == <<>>
GrpOps == <<"o">>
GrpStaff == <<"s">>

\* The groups an allowed_groups or admin_groups set is configured from.
Groups == {GrpEmpty, GrpOps}

\* The groups lists of a document.
GroupLists == {<<>>, <<GrpOps>>, <<GrpStaff>>, <<GrpEmpty>>, <<GrpOps, GrpStaff>>}

\* The userinfo responses of a generic provider: the username claim absent,
\* empty or set; the groups claim absent, a list (top-level or nested), a
\* string, or below a value that is no object.
GenericUserInfos ==
    {Merge(a, b) :
        a \in {EmptyDict} \cup {[u |-> JStr(name)] : name \in {<<>>, <<"b">>}},
        b \in {EmptyDict}
               \cup {[g |-> JList(l)] : l \in GroupLists}
               \cup {[p |-> JDict([g |-> JList(l)])] : l \in GroupLists}
               \cup {[g |-> JStr(<<"o", "s">>)], [p |-> JStr(<<"o">>)],
                     [p |-> JDict([h |-> JList(<<GrpOps>>)])]}}

\* What a configured callable may return for a document: a username (or
\* nothing) for username_claim, the groups list for claim_groups_key.
CallableUsernames == {JNone, JStr(<<>>), JStr(<<"b">>)}
CallableGroups == {JList(l) : l \in GroupLists}

\* ------------------------------------------------- generic username derivation

\* GenericOAuthenticator.user_info_to_username; ret is what the callable, when
\* username_claim is one, returns for user_info.
GenericUserInfoToUsername(claim, user_info, ret) ==
    IF claim.callable THEN Return(ret)
    ELSE LET username == IF KeyOf(claim.path) \in DOMAIN user_info
                         THEN user_info[KeyOf(claim.path)] ELSE JNone
         IN  IF ~JTruthy(username) THEN Raise("ValueError", 0) ELSE Return(username)

DoGenericUserInfoToUsername ==
    /\ phase = "serving"
    /\ cls = "Generic"
    /\ op \notin RequestOps
    /\ \E user_info \in GenericUserInfos,
          ret \in (IF username_claim.callable THEN CallableUsernames ELSE {JNone}) :
        /\ op' = "generic.user_info_to_username"
        /\ arg' = [user_info |-> user_info, ret |-> ret]
        /\ out' = GenericUserInfoToUsername(username_claim, user_info, ret)
    /\ UNCHANGED <<cls, phase, allowed_idps, generic_config>>

\* ------------------------------------------------------------ generic groups

\* s.split("."): the segments between the periods, empty ones included.
RECURSIVE Split(_)
Split(s) ==
    LET i == Find(s, ".") IN
    IF i = 0 THEN <<s>>
    ELSE <<SubSeq(s, 1, i - 1)>> \o Split(SubSeq(s, i + 1, Len(s)))

TypeError == <<"TypeError", None>>

\* reduce(dict.get, keys, acc): dict.get of a value that is no dict is a
\* TypeError, of an absent key None.
RECURSIVE ReduceGet(_, _)
ReduceGet(acc, keys) ==
    IF keys = <<>> THEN acc
    ELSE IF TypeOf(acc) # "dict" THEN TypeError
    ELSE ReduceGet(IF KeyOf(Head(keys)) \in DOMAIN ValueOf(acc)
                   THEN ValueOf(acc)[KeyOf(Head(keys))] ELSE JNone,
                   Tail(keys))

\* set(j): the elements of a list, the characters of a string, the keys of a
\* dict; None is not iterable.
ToSet(j) ==
    IF TypeOf(j) = "list" THEN <<"set", {ValueOf(j)[i] : i \in DOMAIN ValueOf(j)}>>
    ELSE IF TypeOf(j) = "str" THEN <<"set", {<<ValueOf(j)[i]>> : i \in DOMAIN ValueOf(j)}>>
    ELSE IF TypeOf(j) = "dict" THEN <<"set", {<<k>> : k \in DOMAIN ValueOf(j)}>>
    ELSE TypeError

\* GenericOAuthenticator.get_user_groups; ret is what the callable, when
\* claim_groups_key is one, returns for user_info.
GetUserGroups(key, user_info, ret) ==
    IF key.callable THEN ValueOf(ToSet(ret))
    ELSE LET found == ReduceGet(JDict(user_info), Split(key.path))
             groups == IF TypeOf(found) = "TypeError" THEN TypeError ELSE ToSet(found)
         IN  IF TypeOf(groups) = "TypeError" THEN {} ELSE ValueOf(groups)

\* any(s) for a set of strings: some element is not the empty string.
AnyTruthy(s) == \E g \in s : g # <<>>

\* GenericOAuthenticator.update_auth_model; admin is "True", "False" or "None".
UpdateAuthModel(admins, key, auth_model, ret) ==
    IF auth_model.admin = "True" THEN Return(auth_model)
    ELSE IF admins # {}
    THEN LET user_groups == GetUserGroups(key, auth_model.user_info, ret) IN
         Return([auth_model EXCEPT
                    !.admin = IF AnyTruthy(user_groups \cap admins) THEN "True" ELSE "False"])
    ELSE Return(auth_model)

\* GenericOAuthenticator.check_allowed; base is what the inherited
\* check_allowed (the static allow-list) answered.
GenericCheckAllowed(allowed, key, base, user_info, ret) ==
    IF base THEN Return(TRUE)
    ELSE IF allowed # {} /\ AnyTruthy(GetUserGroups(key, user_info, ret) \cap allowed)
    THEN Return(TRUE)
    ELSE Return(FALSE)

\* The groups lists a request's callable may return: none to choose when
\* claim_groups_key is a path.
GroupRets == IF claim_groups_key.callable THEN CallableGroups ELSE {JList(<<>>)}

DoUpdateAuthModel ==
    /\ phase = "serving"
    /\ cls = "Generic"
    /\ op \notin RequestOps
    /\ \E admin \in {"True", "False", "None"}, user_info \in GenericUserInfos,
          ret \in GroupRets :
        /\ op' = "generic.update_auth_model"
        /\ arg' = [auth_model |-> [admin |-> admin, user_info |-> user_info],
                   ret |-> ret]
        /\ out' = UpdateAuthModel(admin_groups, claim_groups_key,
                                  [admin |-> admin, user_info |-> user_info], ret)
    /\ UNCHANGED <<cls, phase, allowed_idps, generic_config>>

DoGenericCheckAllowed ==
    /\ phase = "serving"
    /\ cls = "Generic"
    /\ op \notin RequestOps
    /\ \E base \in BOOLEAN, user_info \in GenericUserInfos, ret \in GroupRets :
        /\ op' = "generic.check_allowed"
        /\ arg' = [base |-> base, user_info |-> user_info, ret |-> ret]
        /\ out' = GenericCheckAllowed(allowed_groups, claim_groups_key, base,
                                      user_info, ret)
    /\ UNCHANGED <<cls, phase, allowed_idps, generic_config>>

\* A GenericOAuthenticator with its traits set from the configuration; a set
\* left empty is a trait left at its default.
ConfigureGeneric ==
    /\ phase = "new"
    /\ cls' = "Generic"
    /\ phase' = "serving"
    /\ allowed_groups' \in SUBSET Groups
    /\ admin_groups' \in SUBSET Groups
    /\ claim_groups_key' \in {PathKey(PathGroups), PathKey(PathNested), CallableKey}
    /\ username_claim' \in {PathKey(PathUser), CallableKey}
    /\ op' = "generic.configure"
    /\ arg' = None
    /\ out' = Return(None)
    /\ UNCHANGED allowed_idps

Next ==
    \/ ConfigureAllowedIdps
    \/ DefaultAllowedIdps
    \/ DoUserInfoToUsername
    \/ DoCheckAllowed
    \/ ConfigureGeneric
    \/ DoGenericUserInfoToUsername
    \/ DoUpdateAuthModel
    \/ DoGenericCheckAllowed
    \/ FinishRequest

Spec == Init /\ [][Next]_vars

\* ============================================================ the claims

\* The provider entry of the last CILogon request's document.
ReqIdp == allowed_idps[arg.user_info["idp"]]

\* The unprocessed username of the last CILogon request: the value of the
\* provider's username claim in the document.
ReqRaw == Get(arg.user_info, ReqIdp.username_derivation.username_claim)

\* The last operation was check_allowed, the base allow-list did not allow, and
\* the provider declares a non-empty allowed_domains.
DomainCheckRan ==
    /\ op = "check_allowed"
    /\ ~arg.base
    /\ "allowed_domains" \in DOMAIN ReqIdp
    /\ ReqIdp.allowed_domains # <<>>

HasAt(s) == \E i \in 1..Len(s) : s[i] = "@"

\* The text after the first "@" of s.
AfterAt(s) == SubSeq(s, Find(s, "@") + 1, Len(s))

\* A 4xx-class HTTP error.
Denied(o) == o.kind = "raise" /\ o.exc = "HTTPError" /\ o.status \in 400..499

\* A 5xx-class HTTP error.
ServerFault(o) == o.kind = "raise" /\ o.exc = "HTTPError" /\ o.status \in 500..599

\* C1: when the base allow-list does not allow, the provider declares a
\* non-empty allowed_domains and the unprocessed username holds no "@", the
\* domain check is skipped without an error and check_allowed answers False.
C1_NoAtIsSkipped ==
    (DomainCheckRan /\ ~HasAt(ReqRaw)) => out = Return(FALSE)

\* C2: when the base allow-list does not allow and the provider declares a
\* non-empty allowed_domains, a username local@domain whose domain is in
\* allowed_domains is allowed, and any other ends in a 4xx denial, never in a
\* plain False and never in a 5xx failure.
C2_DomainAllowsOrDenies ==
    (DomainCheckRan /\ HasAt(ReqRaw)) =>
        IF InList(AfterAt(ReqRaw), ReqIdp.allowed_domains)
        THEN out = Return(TRUE)
        ELSE Denied(out)

\* C3: the domain check grants access exactly when some entry of
\* allowed_domains equals the user's domain, letter case ignored on both sides.
C3_DomainCaseInsensitive ==
    (DomainCheckRan /\ HasAt(ReqRaw)) =>
        (out = Return(TRUE) <=>
            \E k \in DOMAIN ReqIdp.allowed_domains :
                Lower(ReqIdp.allowed_domains[k]) = Lower(AfterAt(ReqRaw)))

\* The document names no provider, an empty one, or one the registry lacks.
NoProvider(user_info) ==
    \/ "idp" \notin DOMAIN user_info
    \/ user_info["idp"] = <<>>
    \/ user_info["idp"] \notin DOMAIN allowed_idps

\* C5: a document whose idp claim is missing or empty, or names a provider
\* that is no key of the registry, ends user_info_to_username in a 5xx error
\* and yields no username.
C5_UnconfiguredProviderFails ==
    (op = "user_info_to_username" /\ NoProvider(arg.user_info)) =>
        ServerFault(out) /\ out.value = None

\* C5's case: a registry with entries, a document naming another provider.
C5_Witness ==
    /\ op = "user_info_to_username"
    /\ allowed_idps # EmptyDict
    /\ "idp" \in DOMAIN arg.user_info
    /\ arg.user_info["idp"] = IdFtp
    /\ "eppn" \in DOMAIN arg.user_info
    /\ arg.user_info["eppn"] # <<>>
    /\ ServerFault(out)

\* raw with the suffix that equals "@" + domain, letter case ignored, removed;
\* raw itself when it has no such suffix.
StripExpected(raw, domain) ==
    LET cuts == {k \in 0..Len(raw) :
                    Lower(SubSeq(raw, k + 1, Len(raw))) = Lower(<<"@">> \o domain)}
    IN  IF cuts = {} THEN raw ELSE SubSeq(raw, 1, CHOOSE k \in cuts : TRUE)

\* C8: under action strip_idp_domain the derived username is the raw claim
\* value without its trailing "@" + domain (letter case ignored, the rest
\* unchanged), and the raw value itself when it has no such suffix.
C8_StripDomain ==
    (/\ op = "user_info_to_username"
     /\ ~NoProvider(arg.user_info)
     /\ "action" \in DOMAIN ReqIdp.username_derivation
     /\ ReqIdp.username_derivation.action = "strip_idp_domain"
     /\ Truthy(ReqRaw))
    => out = Return(StripExpected(ReqRaw, ReqIdp.username_derivation.domain))

\* C9: a login attempt is only ever processed with a registry of at least one
\* provider, and a proposed registry of no entries is a configuration error.
C9_RegistryNeverEmpty ==
    /\ (op \in {"user_info_to_username", "check_allowed"}) => allowed_idps # EmptyDict
    /\ (op = "allowed_idps" /\ arg.proposal = <<>>) => phase = "failed"

\* The items of a proposal that fail the schema or the entity-ID scheme check.
BadItems(p) ==
    {i \in DOMAIN p :
        \/ ~SchemaValid(p[i].cfg)
        \/ UrlScheme(p[i].id) \notin {<<"u", "r", "n">>, <<"h", "t", "t", "p", "s">>,
                                      <<"h", "t", "t", "p">>}}

\* C10: a proposed registry with a failing item is rejected at the first such
\* item and nothing of it is installed; one whose items all pass is installed
\* whole.
C10_BuildAllOrNothing ==
    op = "allowed_idps" =>
        LET p == arg.proposal IN
        IF BadItems(p) # {}
        THEN /\ out.kind = "raise"
             /\ out.at \in BadItems(p)
             /\ \A i \in BadItems(p) : out.at <= i
             /\ phase = "failed"
             /\ allowed_idps = EmptyDict
        ELSE p # <<>> =>
             /\ out.kind = "return"
             /\ phase = "serving"
             /\ DOMAIN allowed_idps = {p[i].id : i \in DOMAIN p}
             /\ \A i \in DOMAIN p : allowed_idps[p[i].id] = p[i].cfg

\* C10's case: the first item passes both checks, a later one fails.
C10_Witness ==
    /\ op = "allowed_idps"
    /\ Len(arg.proposal) >= 2
    /\ 1 \notin BadItems(arg.proposal)
    /\ BadItems(arg.proposal) # {}
    /\ phase = "failed"

\* What the configured username_claim selects from the last generic request's
\* document: the callable's return value, or the value of the claim.
GenericExtracted ==
    IF username_claim.callable THEN arg.ret
    ELSE IF KeyOf(username_claim.path) \in DOMAIN arg.user_info
    THEN arg.user_info[KeyOf(username_claim.path)]
    ELSE JNone

\* C4: when the selected username claim is absent from the document or its
\* value is empty, derive fails with an error and returns no username; this
\* for the CILogon derivation and for the generic one, with a claim name or a
\* callable.
C4_MissingClaimFails ==
    /\ (op = "user_info_to_username" /\ ~NoProvider(arg.user_info) /\ ~Truthy(ReqRaw))
        => out.kind = "raise"
    /\ (op = "generic.user_info_to_username" /\ ~JTruthy(GenericExtracted))
        => out.kind = "raise"

\* The GroupMembership of the last generic request's document.
ReqGroups(user_info) == GetUserGroups(claim_groups_key, user_info, arg.ret)

\* C6: update_auth_model leaves a true isAdmin true; otherwise, with admin
\* groups configured, isAdmin is true exactly when the document's groups meet
\* the admin groups; otherwise isAdmin stays as it was.
C6_AdminComputation ==
    op = "generic.update_auth_model" =>
        LET prior == arg.auth_model.admin
            groups == ReqGroups(arg.auth_model.user_info)
        IN  /\ out.kind = "return"
            /\ out.value.admin =
                IF prior = "True" THEN "True"
                ELSE IF admin_groups # {}
                THEN (IF groups \cap admin_groups # {} THEN "True" ELSE "False")
                ELSE prior

\* C7: a login the base allow-list does not allow is allowed exactly when
\* allowed groups are configured and meet the document's groups; in every
\* other case check_allowed answers False.
C7_GroupAllow ==
    (op = "generic.check_allowed" /\ ~arg.base) =>
        out = Return(allowed_groups # {}
                     /\ ReqGroups(arg.user_info) \cap allowed_groups # {})

\* C11: whenever the base allow-list allows, check_allowed (CILogon and
\* generic) answers True: no domain that does not match, no username without
\* "@" and no groups claim that cannot be resolved turns it into a denial or
\* an error.
C11_BaseAllowWins ==
    (op \in {"check_allowed", "generic.check_allowed"} /\ arg.base)
        => out = Return(TRUE)

\* C11's case: the base allow-list allows a login whose provider declares
\* allowed_domains and whose username holds no "@" or a domain not listed.
C11_Witness ==
    /\ op = "check_allowed"
    /\ arg.base
    /\ "allowed_domains" \in DOMAIN ReqIdp
    /\ ReqIdp.allowed_domains # <<>>
    /\ \/ ~HasAt(ReqRaw)
       \/ ~InList(Lower(AfterAt(ReqRaw)), ReqIdp.allowed_domains)
    /\ out = Return(TRUE)

\* C12: every username the CILogon user_info_to_username returns is a
\* non-empty string, whatever the action and the non-empty raw claim value.
C12_UsernameNonEmpty ==
    (op = "user_info_to_username" /\ out.kind = "return")
        => out.value # None /\ out.value # <<>>

====
